---- MODULE Spec2Model ----
(***************************************************************************)
(* Model of the bid-information downloader: the main process               *)
(* (src/src/index.ts main / runDownloader), the download batch             *)
(* (DownloaderService.downloadPdfs / downloadSinglePdf), the download      *)
(* ledger (HistoryManager) and the upload-only pass (uploadExistingFiles). *)
(*                                                                         *)
(* One process runs at a time.  The ledger file and the search-result list *)
(* of the site survive a process; everything else is process memory and is *)
(* lost when the process exits or crashes.                                 *)
(*                                                                         *)
(* An action is one run of the JavaScript event loop: the code from the    *)
(* resolution of one await to the next await.  config.notification.enabled *)
(* is true.                                                                *)
(***************************************************************************)
EXTENDS Integers, Sequences, FiniteSets, TLC

\* ---------------------------------------------------------------- bounds
MaxRuns == 2        \* processes started one after the other
MaxList == 2        \* rows of the search-result list
MaxLinks == 1       \* download links on one detail page, in the runs
MaxPdfs == 3        \* download links on the detail page, in the batch
MaxDirs == 2        \* directories in the data directory
MaxRows == 2        \* ledger rows given to a FileManager method
MaxNames == 2       \* names in the downloaded list of such a row
MaxRetentionDays == 2   \* config.dataCleanup.retentionDays
MaxSheetRows == 2   \* rows of the spreadsheet before the first write
MaxWrites == 3      \* writeContractToSheet calls
MaxTimeoutSec == 12 \* config.downloadTimeoutSec
MaxDelaySec == 5    \* config.pdfClickDelaySec
MaxText == 4        \* characters of the text of an anchor

ContractIds == {"c1", "c2"}

\* ------------------------------------------------------------- variables
VARIABLES
  file,        \* downloadHistory.json: [exists, valid, rows]
  site,        \* the search-result list the site serves: Seq of Contract
  cfg,         \* config: [downloadOnlyNew, uploadEnabled]
  run,         \* number of processes started so far
  pc,          \* position of main/runDownloader in the running process
  err,         \* which call threw the error that reached main's catch
  topResult,   \* value returned by navigateToTopPage
  history,     \* HistoryManager.history (in memory)
  filtered,    \* filteredContracts
  contractsToUpload,  \* uploadExistingFiles: the rows to upload, as positions
  idx,         \* position of the for-of loop over filteredContracts
  pdfs,        \* pdfs of the entity being processed
  j,           \* position of the for-of loop over pdfs in downloadPdfs
  notDl,       \* notDownloaded of the running downloadPdfs call
  arr,         \* the `downloaded` array objects, one per downloadPdfs call
  tasks,       \* downloadSinglePdf invocations: [st, got] per <<entity, item>>
  inflight,    \* downloads started by a click whose event has not fired yet
  filePaths,   \* filePaths of the upload step of the entity being processed
  obs,         \* observations of the running process, kept for the properties
  prev,        \* observations of the earlier processes
  labPc,       \* position of a component that is run on its own
  dataDir,     \* the directories of the data directory, in readdir order
  downloadHistory,  \* the ledger rows given to a FileManager method
  failedDownloads,  \* the result of checkDownloadedFiles
  folderUse,        \* per ledger row: the folder checkDownloadedFiles looked
                    \* in, and the paths getFilesToUpload returned
  deletedCount,     \* the result of cleanupOldData
  removed,          \* the directories removed by fs.rmSync
  cleanup,          \* config.dataCleanup and the clock of cleanupOldData
  sheet,            \* the rows of the spreadsheet: [number, data]
  writes,           \* writeContractToSheet calls made
  sheetCall,        \* the last writeContractToSheet call and its outcome
  CONFIG,           \* the script properties of the relay
  relay,            \* the last request to the relay and what doPost did
  timing,           \* config.downloadTimeoutSec and config.pdfClickDelaySec
  downloadTimeout,  \* DownloaderService.downloadTimeout, in milliseconds
  delayTime,        \* the argument of the sleep between two clicks
  textContent,      \* the text of an anchor of the detail page
  pdfKeywords,      \* config.pdfKeywords
  pdfFile           \* the PdfFile getAvailablePdfs makes of the anchor

\* the variables of FileManager
fmVars == <<dataDir, downloadHistory, failedDownloads, folderUse,
            deletedCount, removed, cleanup>>

\* the variables of GoogleDriveService.writeContractToSheet
sheetVars == <<sheet, writes, sheetCall>>

NoSheetCall ==
  [contractId |-> "", rowData |-> "", before |-> <<>>, read |-> "none",
   returned |-> FALSE]

\* the spreadsheet is not written
SheetIdle ==
  /\ sheet = <<>>
  /\ writes = 0
  /\ sheetCall = NoSheetCall

\* the variables of the notification relay
relayVars == <<CONFIG, relay>>

NoRequest == [body |-> "none", apiKey |-> "undefined", subject |-> "",
              text |-> ""]

NoRelay == [request |-> NoRequest, success |-> FALSE, statusCode |-> 0,
            sent |-> {}, thrown |-> {}]

\* the relay is not called
RelayIdle ==
  /\ CONFIG = [API_KEY |-> "null", CHAT_WEBHOOK_URL |-> FALSE,
               NOTIFICATION_EMAIL |-> FALSE]
  /\ relay = NoRelay

\* the timing values of DownloaderService
timingVars == <<timing, downloadTimeout, delayTime>>

\* no DownloaderService is constructed on its own
TimingIdle ==
  /\ timing = [downloadTimeoutSec |-> 0, pdfClickDelaySec |-> 0]
  /\ downloadTimeout = 0
  /\ delayTime = 0

\* the variables of the evaluation of one anchor by getAvailablePdfs
anchorVars == <<textContent, pdfKeywords, pdfFile>>

NoPdfFile == [listed |-> FALSE, fileName |-> <<>>, enableDownload |-> FALSE]

\* no anchor is evaluated on its own
AnchorIdle ==
  /\ textContent = <<>>
  /\ pdfKeywords = {}
  /\ pdfFile = NoPdfFile

\* the variables of the components that are run on their own
auxVars == <<labPc, fmVars, sheetVars, relayVars, timingVars, anchorVars>>

NoFolderUse == [checked |-> <<>>, paths |-> <<>>]

\* FileManager is not called
FmIdle ==
  /\ dataDir = <<>>
  /\ downloadHistory = <<>>
  /\ failedDownloads = <<>>
  /\ folderUse = NoFolderUse
  /\ deletedCount = 0
  /\ removed = {}
  /\ cleanup = [enabled |-> FALSE, retentionDays |-> 0, now |-> 0]

\* the components at rest, while the main process or the upload-only pass
\* is modelled
AuxIdle ==
  /\ labPc = "idle"
  /\ FmIdle
  /\ SheetIdle
  /\ RelayIdle
  /\ TimingIdle
  /\ AnchorIdle

vars == <<file, site, cfg, auxVars, contractsToUpload, run, pc, err,
          topResult, history, filtered, idx, pdfs, j, notDl, arr, tasks,
          inflight, filePaths, obs, prev>>

\* --------------------------------------------------------------- helpers
Range(s) == {s[i] : i \in 1..Len(s)}

SeqsUpTo(S, n) == UNION {[1..k -> S] : k \in 0..n}

RECURSIVE SelectIdx(_, _, _)
\* Array.prototype.filter: the subsequence of s whose elements satisfy keep
SelectIdx(s, keep, i) ==
  IF i > Len(s) THEN <<>>
  ELSE IF keep[i] THEN <<s[i]>> \o SelectIdx(s, keep, i + 1)
       ELSE SelectIdx(s, keep, i + 1)

Filter(s, keep) == SelectIdx(s, keep, 1)

\* a row of the search-result list; links is the detail page of the
\* contract: for each download link, whether its name holds a keyword
Contracts(n) ==
  [contractId : ContractIds, isNew : BOOLEAN, links : SeqsUpTo(BOOLEAN, n)]

NoDownload == <<0, 0>>
TaskIds == (1..MaxList) \X (1..MaxPdfs)

\* the file name of the j-th link on the detail page of contract c
FileName(c, k) == <<c, k>>

\* BrowserService.getAvailablePdfs: one PdfFile per download link
getAvailablePdfs(c) ==
  [k \in 1..Len(c.links) |->
     [fileName |-> FileName(c.contractId, k), href |-> k,
      enableDownload |-> c.links[k]]]

NoTasks == [t \in TaskIds |-> [st |-> "none", got |-> NoDownload]]
NoArrays == [k \in 1..MaxList |-> <<>>]

NoTop == [success |-> FALSE, isServiceStopped |-> FALSE]

\* what the properties need to know about the running process
NoObs == [loadOk |-> TRUE,         \* loadHistory read the ledger file
          loaded |-> 0,            \* rows loadHistory returned
          opened |-> <<>>,         \* contractIds whose detail page was opened
          visited |-> <<>>,        \* contractIds navigateToContractDetail was
                                   \* called for
          consultCalled |-> FALSE, \* navigateToConsultantSearch was called
          returned |-> {},         \* entities whose downloadPdfs call returned
          timedOut |-> {},         \* entities whose batch timer fired
          atReturn |-> NoArrays,   \* `downloaded` when downloadPdfs returned
          doneAtReturn |-> {},     \* tasks that had finished saving by then
          saved |-> "no",          \* saveHistory: "no", "written", "failed"
          summary |-> 0,           \* run-summary notifications sent
          errorNote |-> 0,         \* error notifications sent
          clicks |-> NoArrays,     \* per entity: the clicks issued, in order,
                                   \* each with the sleeps that had ended
          slept |-> [k \in 1..MaxList |-> 0],  \* inter-click sleeps ended
          waited |-> {},           \* entities whose Promise.race was awaited
          saves |-> 0,             \* calls of saveHistory
          uploads |-> <<>>,        \* the calls of addUploadResults, in order
          uploadsAtSave |-> 0,     \* how many of them preceded saveHistory
          steps |-> NoArrays,      \* per entity: the steps of its loop pass
          listed |-> FALSE,        \* searchContracts returned, the filter ran
          nothingNew |-> 0,        \* nothing-new notifications sent
          selected |-> FALSE,      \* getContractsToUpload was called
          retried |-> {},          \* <<contractId, file>> uploaded again after
                                   \* an upload recorded as success
          twice |-> {},            \* those of them that succeeded again
          browser |-> FALSE,       \* chromium.launch was called
          uploadOnly |-> FALSE,    \* the process runs uploadExistingFiles
          atLoad |-> <<>>,         \* upload-only pass: the rows loadHistory read
          touched |-> {},          \* upload-only pass: positions of the rows
                                   \* whose files were given to uploadFile
          reported |-> {},         \* entities whose results were appended to
                                   \* emailText (lines 269-273)
          atSave |-> <<>>,         \* the in-memory rows when saveHistory was
                                   \* called
          remoteOk |-> TRUE,       \* upload-only pass: no uploadContractFiles
                                   \* call returned a failed result
          persisted |-> {},        \* the contractIds in the ledger file when
                                   \* the process started
          acquired |-> 0,          \* contentFrame() calls made: the Frame
                                   \* handles are numbered in this order
          frame |-> 0,             \* the handle in `frame` of runDownloader
          mainFrame |-> 0,         \* the handle in BrowserService.mainFrame
          uses |-> {}]             \* [e, step, handle, openedAt]: a step of
                                   \* entity e called a method of the handle;
                                   \* openedAt handles existed when the
                                   \* detail page of e was opened

\* how the last process ended, until the next one starts: "none" (no process
\* has ended), "exit" (it ended on its own) or "killed"; its exit code;
\* whether an error reached a catch of main or of the dispatch; the error
\* notifications it sent; whether a process that ended by itself left the
\* browser it had launched open
NoExit == [how |-> "none", code |-> 0, fatal |-> FALSE, errorNote |-> 0,
           browserOpen |-> FALSE]

NoPrev == [recorded |-> {}, completed |-> FALSE, exit |-> NoExit]

\* a step of the loop pass of entity e has been started
ObsStep(o, e, step) == [o EXCEPT !.steps[e] = Append(@, step)]

\* a step of entity e calls a method of the Frame in `frame` of
\* runDownloader (index.ts lines 182, 186, 276); every handle that exists
\* was acquired before the detail page of e was opened, since
\* navigateToContractDetail acquires its handles before its click
ObsUse(o, e, step) ==
  [o EXCEPT !.uses = @ \cup {[e |-> e, step |-> step, handle |-> o.frame,
                               openedAt |-> o.acquired]}]

\* ---------------------------------------------------------------- ledger
Row(c, k, nd) ==
  [contractId |-> c, ref |-> k, downloaded |-> <<>>, notDownloaded |-> nd,
   hasUploaded |-> FALSE, uploaded |-> <<>>]

\* A row of this process holds a reference to the `downloaded` array of its
\* downloadPdfs call (ref); a row read from the file holds its own list.
RowDownloaded(r, a) == IF r.ref = 0 THEN r.downloaded ELSE a[r.ref]

\* JSON.stringify(this.history): the rows with the arrays' current content
Stringify(h, a) ==
  [k \in 1..Len(h) |-> [h[k] EXCEPT !.downloaded = RowDownloaded(h[k], a),
                                    !.ref = 0]]

NoFile == [exists |-> FALSE, valid |-> FALSE, rows |-> <<>>]

\* what a write that was cut short leaves: a document JSON.parse rejects
Truncated == [exists |-> TRUE, valid |-> FALSE, rows |-> <<>>]

\* HistoryManager.loadHistory: the rows of the file; [] when the file is
\* missing (ENOENT) and [] when it cannot be read or parsed.
loadHistory(f) ==
  IF f.exists /\ f.valid THEN f.rows ELSE <<>>

\* the contractIds of the rows in the ledger file
PersistedIds(f) == {f.rows[k].contractId : k \in 1..Len(f.rows)}

\* HistoryManager.getDownloadedContractIds
getDownloadedContractIds(h) == [k \in 1..Len(h) |-> h[k].contractId]

\* HistoryManager.addToHistory
addToHistory(h, r) == Append(h, r)

\* ------------------------------------------------------- runDownloader
\* `!topPageSuccess` tests the object navigateToTopPage returns: ToBoolean of
\* an object is true whatever its fields hold.
ToBoolean(v) == TRUE

\* the filter without its second step (line 129)
FilterContracts_NoLedger(contracts, onlyNew, downloadedIds) ==
  IF onlyNew
  THEN Filter(contracts, [k \in 1..Len(contracts) |-> contracts[k].isNew])
  ELSE contracts

\* lines 118-129: the filter on isNew and on the ids already in the ledger
FilterContracts(contracts, onlyNew, downloadedIds) ==
  LET new == IF onlyNew
             THEN Filter(contracts, [k \in 1..Len(contracts) |-> contracts[k].isNew])
             ELSE contracts
  IN  Filter(new, [k \in 1..Len(new) |->
                     new[k].contractId \notin Range(downloadedIds)])

\* downloadPdfs line 38: the positions of the pdfs to download, in order
downloadTargets(ps) ==
  Filter([k \in 1..Len(ps) |-> k], [k \in 1..Len(ps) |-> ps[k].enableDownload])

Settled(st) == st \in {"none", "done", "failed"}
AllSettled(ts, k) == \A t \in TaskIds : t[1] = k => Settled(ts[t].st)

DoneTasks(ts, k) == {t \in TaskIds : t[1] = k /\ ts[t].st = "done"}

RECURSIVE SkipIneligible_NoPush(_, _, _)
\* the same loop without the push of line 73
SkipIneligible_NoPush(ps, k, nd) ==
  IF k > Len(ps) \/ ps[k].enableDownload THEN [j |-> k, notDl |-> nd]
  ELSE SkipIneligible_NoPush(ps, k + 1, nd)

RECURSIVE SkipIneligible(_, _, _)
\* the for-of loop of downloadPdfs up to the next eligible pdf: the names of
\* the pdfs it passes are pushed to notDownloaded
SkipIneligible(ps, k, nd) ==
  IF k > Len(ps) \/ ps[k].enableDownload THEN [j |-> k, notDl |-> nd]
  ELSE SkipIneligible(ps, k + 1, Append(nd, ps[k].fileName))

\* ------------------------------------------------------------ the process
Init ==
  /\ file = NoFile
  /\ site \in SeqsUpTo(Contracts(MaxLinks), MaxList)
  /\ cfg \in [downloadOnlyNew : BOOLEAN, uploadEnabled : BOOLEAN]
  /\ run = 0
  /\ pc = "idle"
  /\ err = "none"
  /\ topResult = NoTop
  /\ history = <<>>
  /\ filtered = <<>>
  /\ contractsToUpload = <<>>
  /\ idx = 0
  /\ pdfs = <<>>
  /\ j = 0
  /\ notDl = <<>>
  /\ arr = NoArrays
  /\ tasks = NoTasks
  /\ inflight = {}
  /\ filePaths = <<>>
  /\ obs = NoObs
  /\ prev = NoPrev
  /\ AuxIdle

\* what a process leaves behind when it ends: the file, and nothing of its
\* memory
EndProcess(completed, exit) ==
  /\ pc' = "idle"
  /\ err' = "none"
  /\ topResult' = NoTop
  /\ history' = <<>>
  /\ filtered' = <<>>
  /\ idx' = 0
  /\ pdfs' = <<>>
  /\ j' = 0
  /\ notDl' = <<>>
  /\ arr' = NoArrays
  /\ tasks' = NoTasks
  /\ inflight' = {}
  /\ filePaths' = <<>>
  /\ obs' = NoObs
  /\ prev' = [recorded |-> prev.recorded \cup
                {history[k].contractId : k \in (obs.loaded + 1)..Len(history)},
              completed |-> completed,
              exit |-> exit]

\* main, lines 19-79: launch the browser, construct the services (the
\* HistoryManager constructor loads the ledger) and call runDownloader
StartProcess ==
  /\ pc = "idle"
  /\ run < MaxRuns
  /\ run' = run + 1
  /\ history' = loadHistory(file)
  /\ obs' = [NoObs EXCEPT !.loadOk = (file.exists => file.valid),
                          !.loaded = Len(history'),
                          !.persisted = PersistedIds(file),
                          !.browser = TRUE]
  /\ pc' = "top"
  /\ prev' = [prev EXCEPT !.exit = NoExit]
  /\ UNCHANGED <<file, site, cfg, auxVars, contractsToUpload, err, topResult,
                 filtered, idx, pdfs, j, notDl, arr, tasks, inflight,
                 filePaths>>

\* BrowserService.navigateToTopPage and the test of its result in
\* runDownloader (lines 106-110)
NavigateToTopPage ==
  /\ pc = "top"
  /\ \E r \in {[success |-> TRUE, isServiceStopped |-> FALSE],
               [success |-> TRUE, isServiceStopped |-> TRUE],
               [success |-> FALSE, isServiceStopped |-> FALSE]} :
       /\ topResult' = r
       /\ pc' = IF ~ToBoolean(r) THEN "close" ELSE "consult"
  /\ UNCHANGED <<file, site, cfg, auxVars, contractsToUpload, run, err,
                 history, filtered, idx, pdfs, j, notDl, arr, tasks, inflight,
                 filePaths, obs, prev>>

\* BrowserService.navigateToConsultantSearch (line 113): returns the frame
\* or throws
NavigateToConsultantSearch ==
  /\ pc = "consult"
  /\ \/ /\ pc' = "search" /\ err' = err
        /\ obs' = [obs EXCEPT !.consultCalled = TRUE,
                              !.acquired = @ + 1,
                              !.frame = obs.acquired + 1,
                              !.mainFrame = obs.acquired + 1]
     \/ /\ pc' = "catch" /\ err' = "navigateToConsultantSearch"
        /\ obs' = [obs EXCEPT !.consultCalled = TRUE]
  /\ UNCHANGED <<file, site, cfg, auxVars, contractsToUpload, run, topResult,
                 history, filtered, idx, pdfs, j, notDl, arr, tasks, inflight,
                 filePaths, prev>>

\* BrowserService.searchContracts (line 116) and the filter that follows it
\* (lines 118-132)
SearchContracts ==
  /\ pc = "search"
  /\ \/ /\ filtered' = FilterContracts(site, cfg.downloadOnlyNew,
                                       getDownloadedContractIds(history))
        /\ idx' = IF filtered' = <<>> THEN 0 ELSE 1
        /\ pc' = IF filtered' = <<>> THEN "nothingNew" ELSE "detail"
        /\ err' = err
        /\ obs' = [obs EXCEPT !.listed = TRUE]
     \/ /\ pc' = "catch" /\ err' = "searchContracts"
        /\ UNCHANGED <<filtered, idx, obs>>
  /\ UNCHANGED <<file, site, cfg, auxVars, contractsToUpload, run, topResult,
                 history, pdfs, j, notDl, arr, tasks, inflight, filePaths,
                 prev>>

\* lines 132-151 without the notification (line 147)
NothingNew_Silent ==
  /\ pc = "nothingNew"
  /\ pc' = "close"
  /\ UNCHANGED <<file, site, cfg, auxVars, contractsToUpload, run, err,
                 topResult, history, filtered, idx, pdfs, j, notDl, arr,
                 tasks, inflight, filePaths, obs, prev>>

\* lines 132-151: the notification of a run with nothing to download
NothingNew ==
  /\ pc = "nothingNew"
  /\ obs' = [obs EXCEPT !.summary = @ + 1, !.nothingNew = @ + 1]
  /\ pc' = "close"
  /\ UNCHANGED <<file, site, cfg, auxVars, contractsToUpload, run, err,
                 topResult, history, filtered, idx, pdfs, j, notDl, arr,
                 tasks, inflight, filePaths, prev>>

\* lines 166-179: navigateToContractDetail, getContractDetails and
\* createContractDirectory for filteredContracts[idx]
NavigateToContractDetail ==
  /\ pc = "detail"
  /\ \/ /\ obs' = ObsStep([obs EXCEPT !.opened =
                                  Append(@, filtered[idx].contractId),
                                !.visited =
                                  Append(@, filtered[idx].contractId),
                                !.acquired = @ + 2,
                                !.mainFrame = obs.acquired + 1],
                           idx, "OpenDetail")
        /\ pc' = "pdfs" /\ err' = err
     \/ /\ pc' = "catch" /\ err' = "navigateToContractDetail"
        /\ obs' = [obs EXCEPT !.visited =
                                Append(@, filtered[idx].contractId)]
  /\ UNCHANGED <<file, site, cfg, auxVars, contractsToUpload, run, topResult,
                 history, filtered, idx, pdfs, j, notDl, arr, tasks, inflight,
                 filePaths, prev>>

\* ------------------------------------------------------- downloadPdfs
\* download.suggestedFilename() (line 125) of the download started by the
\* click on item d: the name of that link
suggestedFilename(d) == FileName(filtered[d[1]].contractId, d[2])

ObsReturn(o, k, a, ts, timeout) ==
  [o EXCEPT !.returned = @ \cup {k},
            !.timedOut = IF timeout THEN @ \cup {k} ELSE @,
            !.atReturn[k] = a[k],
            !.doneAtReturn = @ \cup DoneTasks(ts, k)]

\* downloadPdfs returns { downloaded, notDownloaded } (lines 49 and 99) and
\* runDownloader goes on without a suspension point to addToHistory (lines
\* 189-197) and to its next await: createContractFolder (line 211) or
\* navigateBack (line 276)
DownloadReturns(o, a, ts, nd, timeout) ==
  /\ history' = addToHistory(history, Row(filtered[idx].contractId, idx, nd))
  /\ filePaths' = a[idx]
  /\ obs' = LET r == ObsStep(ObsReturn(o, idx, a, ts, timeout), idx,
                             "RecordLedger")
            IN  IF cfg.uploadEnabled THEN r
                ELSE [r EXCEPT !.reported = @ \cup {idx}]
  /\ pc' = IF cfg.uploadEnabled THEN "folder" ELSE "back"

\* downloadSinglePdf calls frame.click for item k of entity e (line 121)
ObsClick(o, e, k) ==
  [o EXCEPT !.clicks[e] = Append(@, [item |-> k, slept |-> o.slept[e]])]

\* downloadPdfs awaits the race of Promise.all and the batch timer (line 82)
ObsWait(o, e) == [o EXCEPT !.waited = @ \cup {e}]

\* BrowserService.getAvailablePdfs (line 182) and downloadPdfs (line 186) up
\* to its first await: the return of lines 41-50 when nothing is eligible,
\* else the waitForSelector of the first eligible pdf (line 62)
GetAvailablePdfs ==
  /\ pc = "pdfs"
  /\ \/ /\ pc' = "catch" /\ err' = "getAvailablePdfs"
        /\ obs' = ObsUse(obs, idx, "getAvailablePdfs")
        /\ UNCHANGED <<pdfs, j, notDl, history, filePaths>>
     \/ LET p == getAvailablePdfs(filtered[idx])
            none == \A k \in 1..Len(p) : ~p[k].enableDownload
            sk == SkipIneligible(p, 1, <<>>)
            u == ObsUse(obs, idx, "getAvailablePdfs")
            o == ObsStep(ObsStep(IF none THEN u
                                 ELSE ObsUse(u, idx, "downloadPdfs"),
                                 idx, "ExtractAttachments"),
                         idx, "Download")
        IN  /\ pdfs' = p
            /\ err' = err
            /\ notDl' = sk.notDl
            /\ IF none
               THEN /\ j' = 0
                    /\ DownloadReturns(o, arr, tasks, sk.notDl, FALSE)
               ELSE /\ j' = sk.j
                    /\ pc' = "selector"
                    /\ obs' = o
                    /\ UNCHANGED <<history, filePaths>>
  /\ UNCHANGED <<file, site, cfg, auxVars, contractsToUpload, run, topResult,
                 filtered, idx, arr, tasks, inflight, prev>>

\* the loop of downloadPdfs without the sleep between two clicks (line 70)
WaitForSelector_NoSleep ==
  /\ pc = "selector"
  /\ LET sk == SkipIneligible(pdfs, j + 1, notDl)
     IN  /\ tasks' = [tasks EXCEPT ![<<idx, j>>] =
                        [st |-> "click", got |-> NoDownload]]
         /\ obs' = ObsClick(obs, idx, j)
         /\ j' = IF sk.j <= Len(pdfs) THEN sk.j ELSE j
         /\ notDl' = IF sk.j <= Len(pdfs) THEN sk.notDl ELSE notDl
         /\ pc' = IF sk.j <= Len(pdfs) THEN "selector" ELSE "sleep"
  /\ UNCHANGED <<file, site, cfg, auxVars, contractsToUpload, run, err,
                 topResult, history, filtered, idx, pdfs, arr, inflight,
                 filePaths, prev>>

\* downloadPdfs lines 61-70: frame.waitForSelector resolves or throws; when
\* it resolves downloadSinglePdf is called, which registers its wait for the
\* next download event and issues the click (lines 118-121), and downloadPdfs
\* sleeps
WaitForSelector ==
  /\ pc = "selector"
  /\ \/ /\ tasks' = [tasks EXCEPT ![<<idx, j>>] =
                       [st |-> "click", got |-> NoDownload]]
        /\ obs' = ObsClick(obs, idx, j)
        /\ pc' = "sleep" /\ err' = err
     \/ /\ pc' = "catch" /\ err' = "waitForSelector"
        /\ UNCHANGED <<tasks, obs>>
  /\ UNCHANGED <<file, site, cfg, auxVars, contractsToUpload, run, topResult,
                 history, filtered, idx, pdfs, j, notDl, arr, inflight,
                 filePaths, prev>>

\* downloadPdfs lines 70-89: the sleep ends and the loop goes on to the next
\* eligible pdf, or it ends and the race of Promise.all against the batch
\* timer starts; the race is over at once when every task has settled
Sleep ==
  /\ pc = "sleep"
  /\ LET sk == SkipIneligible(pdfs, j + 1, notDl)
         o == [obs EXCEPT !.slept[idx] = @ + 1]
     IN  /\ j' = sk.j
         /\ notDl' = sk.notDl
         /\ IF sk.j <= Len(pdfs)
            THEN /\ pc' = "selector" /\ obs' = o
                 /\ UNCHANGED <<history, filePaths>>
            ELSE IF AllSettled(tasks, idx)
                 THEN DownloadReturns(ObsWait(o, idx), arr, tasks, sk.notDl, FALSE)
                 ELSE /\ pc' = "race" /\ obs' = ObsWait(o, idx)
                      /\ UNCHANGED <<history, filePaths>>
  /\ UNCHANGED <<file, site, cfg, auxVars, contractsToUpload, run, err,
                 topResult, filtered, idx, pdfs, arr, tasks, inflight, prev>>

\* a batch timer that never fires
BatchTimeout_Never ==
  /\ pc = "race"
  /\ FALSE
  /\ UNCHANGED vars

\* downloadPdfs lines 84-99: the batch timer fires before every task has
\* settled; the rejection is caught and downloadPdfs returns
BatchTimeout ==
  /\ pc = "race"
  /\ DownloadReturns(obs, arr, tasks, notDl, TRUE)
  /\ UNCHANGED <<file, site, cfg, auxVars, contractsToUpload, run, err,
                 topResult, filtered, idx, pdfs, j, notDl, arr, tasks,
                 inflight, prev>>

\* ---------------------------------------------------- downloadSinglePdf
\* the awaits of the for-of loop of runDownloader: while it is suspended
\* there, the callbacks of the pending downloadSinglePdf calls run.  (After
\* saveHistory, and in main's catch, the arrays are not read any more.)
Suspended ==
  pc \in {"detail", "pdfs", "selector", "sleep", "race", "folder", "upload",
          "back"}

\* a task settled: when it was the last one of the batch that is being
\* raced, Promise.all resolves and downloadPdfs returns (lines 82-99)
TaskSettles(a, ts) ==
  IF pc = "race" /\ AllSettled(ts, idx)
  THEN DownloadReturns(obs, a, ts, notDl, FALSE)
  ELSE UNCHANGED <<history, filePaths, obs, pc>>

\* line 121: frame.click resolves (the browser starts the download) or
\* throws (caught at line 136)
Click(t) ==
  /\ Suspended
  /\ tasks[t].st = "click"
  /\ \/ /\ tasks' = [tasks EXCEPT ![t].st =
                       IF tasks[t].got = NoDownload THEN "wait" ELSE "save"]
        /\ inflight' = inflight \cup {t}
        /\ UNCHANGED <<history, filePaths, obs, pc>>
     \/ /\ tasks' = [tasks EXCEPT ![t].st = "failed"]
        /\ inflight' = inflight
        /\ TaskSettles(arr, tasks')
  /\ UNCHANGED <<file, site, cfg, auxVars, contractsToUpload, run, err,
                 topResult, filtered, idx, pdfs, j, notDl, arr, prev>>

\* the page emits the download event of d: page.waitForEvent('download')
\* (line 118) resolves for every task that is waiting for an event
DownloadEvent(d) ==
  /\ Suspended
  /\ d \in inflight
  /\ inflight' = inflight \ {d}
  /\ tasks' = [t \in TaskIds |->
                 IF tasks[t].st \in {"click", "wait"} /\ tasks[t].got = NoDownload
                 THEN [st |-> IF tasks[t].st = "wait" THEN "save" ELSE "click",
                       got |-> d]
                 ELSE tasks[t]]
  /\ UNCHANGED <<file, site, cfg, auxVars, contractsToUpload, run, pc, err,
                 topResult, history, filtered, idx, pdfs, j, notDl, arr,
                 filePaths, obs, prev>>

\* line 124: the wait for the download event times out (caught at line 136)
WaitForEventTimeout(t) ==
  /\ Suspended
  /\ tasks[t].st = "wait"
  /\ tasks' = [tasks EXCEPT ![t].st = "failed"]
  /\ TaskSettles(arr, tasks')
  /\ UNCHANGED <<file, site, cfg, auxVars, contractsToUpload, run, err,
                 topResult, filtered, idx, pdfs, j, notDl, arr, inflight, prev>>

\* lines 125-138: download.saveAs resolves and the file name is pushed to
\* `downloaded`, or it throws (caught at line 136)
SaveAs(t) ==
  /\ Suspended
  /\ tasks[t].st = "save"
  /\ \/ /\ arr' = [arr EXCEPT ![t[1]] =
                     Append(@, suggestedFilename(tasks[t].got))]
        /\ tasks' = [tasks EXCEPT ![t].st = "done"]
     \/ /\ arr' = arr
        /\ tasks' = [tasks EXCEPT ![t].st = "failed"]
  /\ TaskSettles(arr', tasks')
  /\ UNCHANGED <<file, site, cfg, auxVars, contractsToUpload, run, err,
                 topResult, filtered, idx, pdfs, j, notDl, inflight, prev>>

\* ------------------------------------------- upload, back, save, notify
\* HistoryManager.saveHistory: the file is rewritten with the rows, or the
\* write fails and the error is logged
saveHistory(f, h, a, writeOk) ==
  IF writeOk THEN [exists |-> TRUE, valid |-> TRUE, rows |-> Stringify(h, a)]
  ELSE f

RECURSIVE FindIndex(_, _, _)
\* Array.prototype.find: the first row with the contractId, 0 when none
FindIndex(h, c, k) ==
  IF k > Len(h) THEN 0
  ELSE IF h[k].contractId = c THEN k ELSE FindIndex(h, c, k + 1)

\* HistoryManager.addUploadResults
addUploadResults(h, c, results) ==
  LET k == FindIndex(h, c, 1)
  IN  IF k = 0 THEN h
      ELSE [h EXCEPT ![k].hasUploaded = TRUE, ![k].uploaded = results]

\* the end of one pass of the for-of loop (lines 165, 277): the next entity,
\* or after the last one saveHistory (line 280) and the text of the
\* notification, up to the await of sendNotification (line 333)
NextContract(o) ==
  IF idx < Len(filtered)
  THEN /\ idx' = idx + 1
       /\ pc' = "detail"
       /\ obs' = o
       /\ file' = file
  ELSE /\ idx' = idx
       /\ pc' = "notify"
       /\ \E writeOk \in BOOLEAN :
            /\ file' = saveHistory(file, history, arr, writeOk)
            /\ obs' = [o EXCEPT !.saved = IF writeOk THEN "written"
                                          ELSE "failed",
                                !.saves = @ + 1,
                                !.atSave = history,
                                !.uploadsAtSave = Len(o.uploads)]

\* lines 200-220: createContractFolder returns an id, or null and the pass
\* ends with `continue`
CreateContractFolder ==
  /\ pc = "folder"
  /\ \/ /\ pc' = "upload"
        /\ obs' = ObsStep(obs, idx, "MirrorUpload")
        /\ UNCHANGED <<idx, file>>
     \/ NextContract(ObsStep(obs, idx, "MirrorUpload"))
  /\ UNCHANGED <<site, cfg, auxVars, contractsToUpload, run, err, topResult,
                 history, filtered, pdfs, j, notDl, arr, tasks, inflight,
                 filePaths, prev>>

\* lines 223-258: every file of filePaths is uploaded and the results are
\* stored in the row
UploadFiles ==
  /\ pc = "upload"
  /\ \E status \in [1..Len(filePaths) -> {"success", "failed"}] :
       LET results == [k \in 1..Len(filePaths) |->
                         [fileName |-> filePaths[k], status |-> status[k]]]
       IN  /\ history' = addUploadResults(history, filtered[idx].contractId,
                                          results)
           /\ obs' = [obs EXCEPT !.uploads =
                        Append(@, [entity |-> idx, results |-> results]),
                                 !.reported = @ \cup {idx}]
  /\ pc' = "back"
  /\ UNCHANGED <<file, site, cfg, auxVars, contractsToUpload, run, err,
                 topResult, filtered, idx, pdfs, j, notDl, arr, tasks,
                 inflight, filePaths, prev>>

\* BrowserService.navigateBack (line 276): resolves or throws
NavigateBack ==
  /\ pc = "back"
  /\ \/ /\ NextContract(ObsStep(ObsUse(obs, idx, "navigateBack"), idx, "Back"))
        /\ err' = err
     \/ /\ pc' = "catch" /\ err' = "navigateBack"
        /\ obs' = ObsStep(ObsUse(obs, idx, "navigateBack"), idx, "Back")
        /\ UNCHANGED <<idx, file>>
  /\ UNCHANGED <<site, cfg, auxVars, contractsToUpload, run, topResult,
                 history, filtered, pdfs, j, notDl, arr, tasks, inflight,
                 filePaths, prev>>

\* lines 330-334: the run-summary notification
SendNotification ==
  /\ pc = "notify"
  /\ obs' = [obs EXCEPT !.summary = @ + 1]
  /\ pc' = "close"
  /\ UNCHANGED <<file, site, cfg, auxVars, contractsToUpload, run, err,
                 topResult, history, filtered, idx, pdfs, j, notDl, arr,
                 tasks, inflight, filePaths, prev>>

\* main, lines 80-83: an error thrown by runDownloader is logged and
\* sendErrorNotification is called
CatchFatal ==
  /\ pc = "catch"
  /\ obs' = [obs EXCEPT !.errorNote = @ + 1]
  /\ pc' = "close"
  /\ UNCHANGED <<file, site, cfg, auxVars, contractsToUpload, run, err,
                 topResult, history, filtered, idx, pdfs, j, notDl, arr,
                 tasks, inflight, filePaths, prev>>

\* ------------------------------------------------- uploadExistingFiles
\* the rows whose upload results are missing or hold a failure
getContractsToUpload_Missing(h) ==
  Filter([k \in 1..Len(h) |-> k], [k \in 1..Len(h) |-> ~h[k].hasUploaded])

\* HistoryManager.getContractsToUpload: the rows, as positions in the ledger
getContractsToUpload(h) ==
  Filter([k \in 1..Len(h) |-> k],
         [k \in 1..Len(h) |->
            \/ ~h[k].hasUploaded
            \/ \E n \in 1..Len(h[k].uploaded) :
                  h[k].uploaded[n].status = "failed"])

\* HistoryManager.getFilesToUpload: every file of `downloaded` of the first
\* row with the contractId (the directory of a recorded contract exists:
\* createContractDirectory precedes addToHistory)
getFilesToUpload(h, c) ==
  LET k == FindIndex(h, c, 1)
  IN  IF k = 0 THEN <<>> ELSE RowDownloaded(h[k], arr)

RECURSIVE NextToUpload(_, _, _)
\* lines 366-373: the loop passes the contracts without a file to upload
NextToUpload(h, list, i) ==
  IF i > Len(list) THEN i
  ELSE IF getFilesToUpload(h, h[list[i]].contractId) # <<>> THEN i
       ELSE NextToUpload(h, list, i + 1)

\* the for-of loop of uploadExistingFiles from position i to its next await
\* (line 378), or to saveHistory after the loop (line 395) and the return
UploadLoop(o, h, list, i) ==
  LET n == NextToUpload(h, list, i)
  IN  /\ contractsToUpload' = list
      /\ idx' = n
      /\ IF n <= Len(list)
         THEN pc' = "uploadOnly" /\ file' = file /\ obs' = o
         ELSE /\ pc' = "exit"
              /\ obs' = [o EXCEPT !.saves = @ + 1]
              /\ \E writeOk \in BOOLEAN :
                   file' = saveHistory(file, h, arr, writeOk)

\* the dispatch (line 409) and uploadExistingFiles up to its first await:
\* the HistoryManager constructor loads the ledger; the pass returns at once
\* when the upload is disabled or no row is selected
StartUploadOnly ==
  /\ pc = "idle"
  /\ run < MaxRuns
  /\ run' = run + 1
  /\ prev' = [prev EXCEPT !.exit = NoExit]
  /\ LET h == loadHistory(file)
         o == [NoObs EXCEPT !.loadOk = (file.exists => file.valid),
                            !.loaded = Len(h),
                            !.persisted = PersistedIds(file),
                            !.uploadOnly = TRUE,
                            !.atLoad = h]
     IN  /\ history' = h
         /\ IF ~cfg.uploadEnabled
            THEN /\ pc' = "exit" /\ obs' = o
                 /\ UNCHANGED <<contractsToUpload, idx, file>>
            ELSE IF getContractsToUpload(h) = <<>>
                 THEN /\ pc' = "exit" /\ obs' = [o EXCEPT !.selected = TRUE]
                      /\ UNCHANGED <<contractsToUpload, idx, file>>
                 ELSE UploadLoop([o EXCEPT !.selected = TRUE], h,
                                 getContractsToUpload(h), 1)
  /\ UNCHANGED <<site, cfg, auxVars, err, topResult, filtered, pdfs, j, notDl,
                 arr, tasks, inflight, filePaths>>

\* some result has status failed
HasFailed(results) ==
  \E n \in 1..Len(results) : results[n].status = "failed"

\* the names of the results with status success
Succeeded(results) ==
  {results[n].fileName :
     n \in {m \in 1..Len(results) : results[m].status = "success"}}

\* lines 378-392: uploadContractFiles resolves with one result per file
\* (every result is failed when the folder could not be created) and
\* addUploadResults stores the results in the row
UploadContractFiles ==
  /\ pc = "uploadOnly"
  /\ LET c == history[contractsToUpload[idx]].contractId
         files == getFilesToUpload(history, c)
         before == Succeeded(history[FindIndex(history, c, 1)].uploaded)
     IN  \E status \in [1..Len(files) -> {"success", "failed"}] :
           LET results == [k \in 1..Len(files) |->
                             [fileName |-> files[k], status |-> status[k]]]
               h == addUploadResults(history, c, results)
               again == Range(files) \cap before
           IN  /\ history' = h
               /\ UploadLoop(
                    [obs EXCEPT
                       !.touched = @ \cup {FindIndex(history, c, 1)},
                       !.remoteOk = @ /\ ~HasFailed(results),
                       !.retried = @ \cup {<<c, f>> : f \in again},
                       !.twice = @ \cup
                          {<<c, f>> : f \in again \cap Succeeded(results)}],
                    h, contractsToUpload, idx + 1)
  /\ UNCHANGED <<site, cfg, auxVars, run, err, topResult, filtered, pdfs, j,
                 notDl, arr, tasks, inflight, filePaths, prev>>

\* uploadExistingFiles has returned: nothing is left to run and the process
\* ends with exit code 0
ProcessExit ==
  /\ pc = "exit"
  /\ EndProcess(prev.completed,
                [how |-> "exit", code |-> 0, fatal |-> FALSE, errorNote |-> 0,
                 browserOpen |-> obs.browser])
  /\ contractsToUpload' = <<>>
  /\ UNCHANGED <<file, site, cfg, auxVars, run>>

\* main without its finally block: the process ends with the browser it
\* launched
CloseBrowser_Leak ==
  /\ pc = "close"
  /\ EndProcess(obs.saved = "written" /\ err = "none",
                [how |-> "exit", code |-> 0, fatal |-> err # "none",
                 errorNote |-> obs.errorNote,
                 browserOpen |-> obs.browser])
  /\ UNCHANGED <<file, site, cfg, auxVars, contractsToUpload, run>>

\* main, lines 84-90, and the dispatch, lines 417-422: browser.close
\* resolves, main's promise resolves and the process ends with nothing left
\* to run (exit code 0: process.exitCode is never set); or browser.close
\* throws and main's promise is rejected
CloseBrowser ==
  /\ pc = "close"
  /\ \/ /\ EndProcess(obs.saved = "written" /\ err = "none",
                       [how |-> "exit", code |-> 0, fatal |-> err # "none",
                        errorNote |-> obs.errorNote,
                        browserOpen |-> FALSE])
        /\ UNCHANGED <<file, site, cfg, auxVars, contractsToUpload, run>>
     \/ /\ pc' = "dispatch"
        /\ UNCHANGED <<file, site, cfg, auxVars, contractsToUpload, run, err,
                       topResult, history, filtered, idx, pdfs, j, notDl, arr,
                       tasks, inflight, filePaths, obs, prev>>

\* the dispatch, lines 417-422: the rejection of main's promise is caught,
\* sendErrorNotification is awaited and process.exit(1) is called
DispatchCatch ==
  /\ pc = "dispatch"
  /\ EndProcess(obs.saved = "written" /\ err = "none",
                [how |-> "exit", code |-> 1, fatal |-> TRUE,
                 errorNote |-> obs.errorNote + 1,
                 browserOpen |-> obs.browser])
  /\ UNCHANGED <<file, site, cfg, auxVars, contractsToUpload, run>>

\* the process is killed
Crash ==
  /\ pc # "idle"
  /\ EndProcess(FALSE, [NoExit EXCEPT !.how = "killed"])
  /\ contractsToUpload' = <<>>
  /\ UNCHANGED <<file, site, cfg, auxVars, run>>

\* the process is killed while saveHistory (lines 280, 395) is writing the file:
\* fs.writeFileSync truncates the file and writes the document in place
CrashInSave ==
  /\ \/ pc \in {"back", "folder"} /\ idx = Len(filtered)
     \/ /\ pc = "uploadOnly"
        /\ NextToUpload(history, contractsToUpload, idx + 1)
              > Len(contractsToUpload)
  /\ file' = Truncated
  /\ EndProcess(FALSE, [NoExit EXCEPT !.how = "killed"])
  /\ contractsToUpload' = <<>>
  /\ UNCHANGED <<site, cfg, auxVars, run>>

Next ==
  \/ StartProcess
  \/ StartUploadOnly
  \/ UploadContractFiles
  \/ ProcessExit
  \/ NavigateToTopPage
  \/ NavigateToConsultantSearch
  \/ SearchContracts
  \/ NothingNew
  \/ NavigateToContractDetail
  \/ GetAvailablePdfs
  \/ WaitForSelector
  \/ Sleep
  \/ BatchTimeout
  \/ \E t \in TaskIds : Click(t)
  \/ \E d \in TaskIds : DownloadEvent(d)
  \/ \E t \in TaskIds : WaitForEventTimeout(t)
  \/ \E t \in TaskIds : SaveAs(t)
  \/ CreateContractFolder
  \/ UploadFiles
  \/ NavigateBack
  \/ SendNotification
  \/ CatchFatal
  \/ CloseBrowser
  \/ DispatchCatch
  \/ Crash
  \/ CrashInSave

Spec == Init /\ [][Next]_vars

\* the same program on a search-result list of one contract whose detail
\* page has up to MaxPdfs download links
InitDl ==
  /\ file = NoFile
  /\ site \in {<<c>> : c \in {d \in Contracts(MaxPdfs) :
                                 d.contractId = "c1" /\ d.isNew}}
  /\ cfg \in [downloadOnlyNew : {FALSE}, uploadEnabled : BOOLEAN]
  /\ run = 0
  /\ pc = "idle"
  /\ err = "none"
  /\ topResult = NoTop
  /\ history = <<>>
  /\ filtered = <<>>
  /\ contractsToUpload = <<>>
  /\ idx = 0
  /\ pdfs = <<>>
  /\ j = 0
  /\ notDl = <<>>
  /\ arr = NoArrays
  /\ tasks = NoTasks
  /\ inflight = {}
  /\ filePaths = <<>>
  /\ obs = NoObs
  /\ prev = NoPrev
  /\ AuxIdle

SpecDl == InitDl /\ [][Next]_vars

\* the row an earlier run has written for contract c1 and its one file
LedgerRows ==
  {[Row("c1", 0, <<>>) EXCEPT !.downloaded = <<FileName("c1", 1)>>]}

\* the ledger file a process can find at startup: missing, cut short by an
\* interrupted write, or holding a row; the file that holds a row is
\* readable, or readFileSync fails on it (EACCES, EBUSY, EIO)
LedgerFiles ==
  {NoFile, Truncated}
  \cup {[exists |-> TRUE, valid |-> v, rows |-> <<r>>] :
          v \in BOOLEAN, r \in LedgerRows}

\* the last process of the program, started on any of these ledger files
InitLedger ==
  /\ file \in LedgerFiles
  /\ site \in SeqsUpTo(Contracts(MaxLinks), MaxList)
  /\ cfg \in [downloadOnlyNew : BOOLEAN, uploadEnabled : BOOLEAN]
  /\ run = MaxRuns - 1
  /\ pc = "idle"
  /\ err = "none"
  /\ topResult = NoTop
  /\ history = <<>>
  /\ filtered = <<>>
  /\ contractsToUpload = <<>>
  /\ idx = 0
  /\ pdfs = <<>>
  /\ j = 0
  /\ notDl = <<>>
  /\ arr = NoArrays
  /\ tasks = NoTasks
  /\ inflight = {}
  /\ filePaths = <<>>
  /\ obs = NoObs
  /\ prev = NoPrev
  /\ AuxIdle

SpecLedger == InitLedger /\ [][Next]_vars

\* one process started without --upload-only, on a search-result list of at
\* most one contract whose detail page has up to MaxPdfs download links
InitBatch ==
  /\ file = NoFile
  /\ site \in {<<>>} \cup {<<c>> : c \in {d \in Contracts(MaxPdfs) :
                                            d.contractId = "c1" /\ d.isNew}}
  /\ cfg \in [downloadOnlyNew : {FALSE}, uploadEnabled : BOOLEAN]
  /\ run = MaxRuns - 1
  /\ pc = "idle"
  /\ err = "none"
  /\ topResult = NoTop
  /\ history = <<>>
  /\ filtered = <<>>
  /\ contractsToUpload = <<>>
  /\ idx = 0
  /\ pdfs = <<>>
  /\ j = 0
  /\ notDl = <<>>
  /\ arr = NoArrays
  /\ tasks = NoTasks
  /\ inflight = {}
  /\ filePaths = <<>>
  /\ obs = NoObs
  /\ prev = NoPrev
  /\ AuxIdle

\* the steps of that process
NextBatch ==
  \/ StartProcess
  \/ NavigateToTopPage
  \/ NavigateToConsultantSearch
  \/ SearchContracts
  \/ NothingNew
  \/ NavigateToContractDetail
  \/ GetAvailablePdfs
  \/ WaitForSelector
  \/ Sleep
  \/ BatchTimeout
  \/ \E t \in TaskIds : Click(t)
  \/ \E d \in TaskIds : DownloadEvent(d)
  \/ \E t \in TaskIds : WaitForEventTimeout(t)
  \/ \E t \in TaskIds : SaveAs(t)
  \/ CreateContractFolder
  \/ UploadFiles
  \/ NavigateBack
  \/ SendNotification
  \/ CatchFatal
  \/ CloseBrowser
  \/ DispatchCatch
  \/ Crash
  \/ CrashInSave

\* The awaits of downloadPdfs that the event loop is bound to resume:
\* frame.waitForSelector (line 61) settles within Playwright's default
\* timeout, sleep (line 70) is a setTimeout of delayTime, and the batch timer
\* (lines 85-87) is a setTimeout of downloadTimeout; a timer that is due
\* runs.  Nothing is assumed about clicks, download events and saves.
SpecBatch ==
  /\ InitBatch
  /\ [][NextBatch]_vars
  /\ WF_vars(WaitForSelector)
  /\ WF_vars(Sleep)
  /\ WF_vars(BatchTimeout)

\* ========================================================= FileManager
\* the variables of the main process and of the upload-only pass
progVars == <<file, site, cfg, contractsToUpload, run, pc, err, topResult,
              history, filtered, idx, pdfs, j, notDl, arr, tasks, inflight,
              filePaths, obs, prev>>

\* no process is running and none is started
ProgIdle ==
  /\ file = NoFile
  /\ site = <<>>
  /\ cfg = [downloadOnlyNew |-> FALSE, uploadEnabled |-> FALSE]
  /\ run = MaxRuns
  /\ pc = "idle"
  /\ err = "none"
  /\ topResult = NoTop
  /\ history = <<>>
  /\ filtered = <<>>
  /\ contractsToUpload = <<>>
  /\ idx = 0
  /\ pdfs = <<>>
  /\ j = 0
  /\ notDl = <<>>
  /\ arr = NoArrays
  /\ tasks = NoTasks
  /\ inflight = {}
  /\ filePaths = <<>>
  /\ obs = NoObs
  /\ prev = NoPrev

\* Strings are sequences of characters.  String.prototype.startsWith
StartsWith(str, p) == Len(p) <= Len(str) /\ SubSeq(str, 1, Len(p)) = p

\* contract ids: one is a prefix of another
FmIds == {<<"1">>, <<"1", "0">>}
FmFiles == {"a.pdf", "b.pdf"}

\* createContractDirectory (lines 41-46): the folder of a contract is named
\* `${contractId}_${contractName}_${sectionName}`
FolderName(contractId, contractName, sectionName) ==
  contractId \o <<"_">> \o contractName \o <<"_">> \o sectionName

RECURSIVE FindDir(_, _, _)
\* dirList.find(dirName => dirName.startsWith(contractId)): the position of
\* the first directory whose name starts with the id, 0 when there is none
FindDir(dirs, contractId, k) ==
  IF k > Len(dirs) THEN 0
  ELSE IF StartsWith(dirs[k].name, contractId) THEN k
       ELSE FindDir(dirs, contractId, k + 1)

\* the local `folderName` of checkDownloadedFiles (line 65) and of
\* getFilesToUpload (part_004 line 92): <<>> when find returns undefined
folderName(dirs, contractId) ==
  IF FindDir(dirs, contractId, 1) = 0 THEN <<>>
  ELSE dirs[FindDir(dirs, contractId, 1)].name

\* the FailedDownload entries of one row (lines 56-81)
CheckRow(row, dirs) ==
  LET f == FindDir(dirs, row.contractId, 1)
  IN  IF f = 0 THEN <<>>
      ELSE LET missing == Filter(row.downloaded,
                            [n \in 1..Len(row.downloaded) |->
                               row.downloaded[n] \notin dirs[f].files])
           IN  [n \in 1..Len(missing) |->
                  [contractId |-> row.contractId,
                   contractName |-> row.contractName,
                   sectionName |-> row.sectionName,
                   fileName |-> missing[n]]]

RECURSIVE checkDownloadedFiles(_, _, _)
\* FileManager.checkDownloadedFiles: the entries of the rows from k on
checkDownloadedFiles(h, dirs, k) ==
  IF k > Len(h) THEN <<>>
  ELSE CheckRow(h[k], dirs) \o checkDownloadedFiles(h, dirs, k + 1)

\* the rows and the directories checkDownloadedFiles is run on
CheckRows ==
  [contractId : FmIds, contractName : {<<"n">>}, sectionName : {<<"s">>},
   downloaded : SeqsUpTo(FmFiles, MaxNames), downloadedAt : {0}]

CheckDirs ==
  {q \in SeqsUpTo([name : {FolderName(c, <<"n">>, <<"s">>) : c \in FmIds},
                   files : SUBSET FmFiles, mtime : {0}], MaxDirs) :
     \A a, b \in 1..Len(q) : a # b => q[a].name # q[b].name}

InitCheck ==
  /\ ProgIdle
  /\ SheetIdle
  /\ RelayIdle
  /\ TimingIdle
  /\ AnchorIdle
  /\ labPc = "ready"
  /\ dataDir \in CheckDirs
  /\ downloadHistory \in SeqsUpTo(CheckRows, MaxRows)
  /\ failedDownloads = <<>>
  /\ folderUse = NoFolderUse
  /\ deletedCount = 0
  /\ removed = {}
  /\ cleanup = [enabled |-> FALSE, retentionDays |-> 0, now |-> 0]

\* runDownloader lines 315-316: checkDownloadedFiles is called
CheckDownloadedFiles ==
  /\ labPc = "ready"
  /\ failedDownloads' = checkDownloadedFiles(downloadHistory, dataDir, 1)
  /\ folderUse' = [folderUse EXCEPT !.checked =
                     [k \in 1..Len(downloadHistory) |->
                        folderName(dataDir, downloadHistory[k].contractId)]]
  /\ labPc' = "checked"
  /\ UNCHANGED <<progVars, sheetVars, relayVars, timingVars, anchorVars,
                 dataDir, downloadHistory, deletedCount, removed, cleanup>>

\* HistoryManager.getFilesToUpload(contractId, dataPath): the paths of the
\* files of `downloaded` of the first row with the contractId, in the first
\* directory whose name starts with the contractId; [] when there is no such
\* row or no such directory
getFilesToUploadIn(h, dirs, contractId) ==
  LET k == FindIndex(h, contractId, 1)
  IN  IF k = 0 \/ folderName(dirs, contractId) = <<>> THEN <<>>
      ELSE [n \in 1..Len(h[k].downloaded) |->
              [dir |-> folderName(dirs, contractId),
               file |-> h[k].downloaded[n]]]

\* uploadExistingFiles line 367: getFilesToUpload is called for each row of
\* contractsToUpload (here every row of the ledger is one)
GetFilesToUpload ==
  /\ labPc = "ready"
  /\ folderUse' = [folderUse EXCEPT !.paths =
                     [k \in 1..Len(downloadHistory) |->
                        getFilesToUploadIn(downloadHistory, dataDir,
                                           downloadHistory[k].contractId)]]
  /\ labPc' = "listed"
  /\ UNCHANGED <<progVars, sheetVars, relayVars, timingVars, anchorVars,
                 dataDir, downloadHistory, failedDownloads, deletedCount,
                 removed, cleanup>>

NextCheck == CheckDownloadedFiles \/ GetFilesToUpload

SpecCheck == InitCheck /\ [][NextCheck]_vars

\* ------------------------------------------------------ cleanupOldData
DayMs == 24 * 60 * 60 * 1000
NowBase == 1000000000

\* the instants around the cutoffs, in milliseconds
Times ==
  {NowBase - d * DayMs + e : d \in 1..MaxRetentionDays, e \in {-1, 0, 1}}

RECURSIVE SplitFirst(_, _)
\* dirName.split('_')[0]: the characters before the first '_', from k on
SplitFirst(str, k) ==
  IF k > Len(str) \/ str[k] = "_" THEN <<>>
  ELSE <<str[k]>> \o SplitFirst(str, k + 1)

RECURSIVE FindRow(_, _, _)
\* history.find(item => item.contractId === contractId): the position of
\* the first such row, 0 when there is none
FindRow(h, contractId, k) ==
  IF k > Len(h) THEN 0
  ELSE IF h[k].contractId = contractId THEN k
       ELSE FindRow(h, contractId, k + 1)

\* lines 107-111: cutoffDate
cutoffDate(c) == c.now - c.retentionDays * DayMs

\* a cleanup whose cutoff is inclusive
IsOld_Inclusive(h, c, dir) ==
  LET r == FindRow(h, SplitFirst(dir.name, 1), 1)
  IN  IF r # 0 /\ h[r].downloadedAt # 0
      THEN h[r].downloadedAt <= cutoffDate(c)
      ELSE dir.mtime <= cutoffDate(c)

\* lines 126-156: the body of the loop decides to remove the directory.
\* A downloadedAt of 0 is a row without the field (the test of line 131 is
\* a truthiness test).
IsOld(h, c, dir) ==
  LET r == FindRow(h, SplitFirst(dir.name, 1), 1)
  IN  IF r # 0 /\ h[r].downloadedAt # 0
      THEN h[r].downloadedAt < cutoffDate(c)
      ELSE dir.mtime < cutoffDate(c)

\* the rows and the directories cleanupOldData is run on
CleanupRows ==
  {q \in SeqsUpTo([contractId : FmIds, contractName : {<<"n">>},
                   sectionName : {<<"s">>}, downloaded : {<<>>},
                   downloadedAt : Times \cup {0}], MaxRows) :
     \A a, b \in 1..Len(q) : a # b => q[a].contractId # q[b].contractId}

CleanupDirs ==
  {q \in SeqsUpTo([name : {FolderName(c, <<"n">>, <<"s">>) : c \in FmIds},
                   files : {{}}, mtime : Times], MaxDirs) :
     \A a, b \in 1..Len(q) : a # b => q[a].name # q[b].name}

InitCleanup ==
  /\ ProgIdle
  /\ SheetIdle
  /\ RelayIdle
  /\ TimingIdle
  /\ AnchorIdle
  /\ labPc = "ready"
  /\ dataDir \in CleanupDirs
  /\ downloadHistory \in CleanupRows
  /\ failedDownloads = <<>>
  /\ folderUse = NoFolderUse
  /\ deletedCount = 0
  /\ removed = {}
  /\ cleanup \in [enabled : BOOLEAN, retentionDays : 1..MaxRetentionDays,
                  now : {NowBase, NowBase + 1}]

\* FileManager.cleanupOldData
CleanupOldData ==
  /\ labPc = "ready"
  /\ labPc' = "cleaned"
  /\ IF ~cleanup.enabled
     THEN UNCHANGED <<dataDir, deletedCount, removed>>
     ELSE LET old == [k \in 1..Len(dataDir) |->
                        IsOld(downloadHistory, cleanup, dataDir[k])]
          IN  /\ dataDir' = Filter(dataDir,
                               [k \in 1..Len(dataDir) |-> ~old[k]])
              /\ removed' = {dataDir[k] : k \in {n \in 1..Len(dataDir) : old[n]}}
              /\ deletedCount' = Cardinality({n \in 1..Len(dataDir) : old[n]})
  /\ UNCHANGED <<progVars, sheetVars, relayVars, timingVars, anchorVars,
                 downloadHistory, failedDownloads, folderUse, cleanup>>

NextCleanup == CleanupOldData

SpecCleanup == InitCleanup /\ [][NextCleanup]_vars

\* ================================================== GoogleDriveService
\* contract numbers (column D) and the other cells of a row
SheetNumbers == {"k1", "k2"}
SheetData == {"v1", "v2"}

\* getSheetData (lines 306-318): the rows of the sheet, [] when
\* spreadsheets.values.get throws
getSheetData(rows, outcome) == IF outcome = "ok" THEN rows ELSE <<>>

RECURSIVE FindRowIndex(_, _, _)
\* existingData.findIndex(row => row[3] === contractId), counted from 1;
\* 0 when there is none
FindRowIndex(rows, contractId, k) ==
  IF k > Len(rows) THEN 0
  ELSE IF rows[k].number = contractId THEN k
       ELSE FindRowIndex(rows, contractId, k + 1)

\* a sheet with at most one row per contract number
InitSheet ==
  /\ ProgIdle
  /\ FmIdle
  /\ RelayIdle
  /\ TimingIdle
  /\ AnchorIdle
  /\ labPc = "sheet"
  /\ sheet \in {q \in SeqsUpTo([number : SheetNumbers, data : SheetData],
                                MaxSheetRows) :
                  \A a, b \in 1..Len(q) : a # b => q[a].number # q[b].number}
  /\ writes = 0
  /\ sheetCall = NoSheetCall

\* GoogleDriveService.writeContractToSheet (lines 224-298)
WriteContractToSheet ==
  /\ labPc = "sheet"
  /\ writes < MaxWrites
  /\ writes' = writes + 1
  /\ \E contractId \in SheetNumbers \cup {""}, rowData \in SheetData,
        read \in {"ok", "throws"}, write \in {"ok", "throws"} :
       LET row == [number |-> contractId, data |-> rowData]
           existingData == getSheetData(sheet, read)
           duplicateRow == FindRowIndex(existingData, contractId, 1)
           call == [contractId |-> contractId, rowData |-> rowData,
                    before |-> sheet, read |-> read, returned |-> FALSE]
       IN  IF contractId = ""
           THEN /\ sheet' = sheet
                /\ sheetCall' = [call EXCEPT !.read = "none"]
           ELSE IF write = "throws"
           THEN /\ sheet' = sheet
                /\ sheetCall' = call
           ELSE IF duplicateRow # 0
           THEN /\ sheet' = [sheet EXCEPT ![duplicateRow] = row]
                /\ sheetCall' = [call EXCEPT !.returned = TRUE]
           ELSE /\ sheet' = Append(sheet, row)
                /\ sheetCall' = [call EXCEPT !.returned = TRUE]
  /\ UNCHANGED <<progVars, labPc, fmVars, relayVars, timingVars, anchorVars>>

NextSheet == WriteContractToSheet

SpecSheet == InitSheet /\ [][NextSheet]_vars

\* ================================================== notification relay
\* The requests.  body: "invalid" is not JSON, "null" is the JSON value
\* null, "object" is a JSON object with the fields below.  apiKey:
\* "undefined" is a missing field, "null" the JSON value null, the others
\* are strings.  subject and text: "" is a missing field or the empty string.
Requests ==
  [body : {"invalid", "null"}, apiKey : {"undefined"}, subject : {""},
   text : {""}]
  \cup [body : {"object"}, apiKey : {"undefined", "null", "secret", "wrong"},
        subject : {"", "s"}, text : {"", "t"}]

\* validateApiKey (lines 63-65): apiKey === CONFIG.API_KEY
validateApiKey(apiKey) == apiKey = CONFIG.API_KEY

\* createErrorResponse (lines 73-79)
createErrorResponse(request, statusCode, thrown) ==
  [request |-> request, success |-> FALSE, statusCode |-> statusCode,
   sent |-> {}, thrown |-> thrown]

\* the script properties: getProperty gives null for a property that is
\* not set
InitRelay ==
  /\ ProgIdle
  /\ FmIdle
  /\ SheetIdle
  /\ TimingIdle
  /\ AnchorIdle
  /\ labPc = "relay"
  /\ CONFIG \in [API_KEY : {"null", "secret"}, CHAT_WEBHOOK_URL : BOOLEAN,
                 NOTIFICATION_EMAIL : BOOLEAN]
  /\ relay = NoRelay

\* doPost (lines 24-56) with sendNotifications (lines 87-117); mail and
\* chat are the outcomes of MailApp.sendEmail and UrlFetchApp.fetch
DoPost ==
  /\ labPc = "relay"
  /\ \E request \in Requests, mail \in {"ok", "throws"},
        chat \in {"ok", "throws"} :
       relay' =
         IF request.body = "invalid"
         THEN createErrorResponse(request, 500, {"JSON.parse"})
         ELSE IF request.body = "null"
         THEN createErrorResponse(request, 500, {"requestData.apiKey"})
         ELSE IF ~validateApiKey(request.apiKey)
         THEN createErrorResponse(request, 401, {})
         ELSE IF request.subject = "" \/ request.text = ""
         THEN createErrorResponse(request, 400, {})
         ELSE [request |-> request, success |-> TRUE, statusCode |-> 0,
               sent |->
                 {c \in {"email"} : CONFIG.NOTIFICATION_EMAIL /\ mail = "ok"}
                 \cup {c \in {"chat"} : CONFIG.CHAT_WEBHOOK_URL /\ chat = "ok"},
               thrown |->
                 {c \in {"MailApp.sendEmail"} :
                    CONFIG.NOTIFICATION_EMAIL /\ mail = "throws"}
                 \cup {c \in {"UrlFetchApp.fetch"} :
                         CONFIG.CHAT_WEBHOOK_URL /\ chat = "throws"}]
  /\ UNCHANGED <<progVars, labPc, fmVars, sheetVars, timingVars, anchorVars,
                 CONFIG>>

NextRelay == DoPost

SpecRelay == InitRelay /\ [][NextRelay]_vars

\* ========================================== DownloaderService timing
Max(a, b) == IF a >= b THEN a ELSE b

\* constructor, line 23
batchTimeout(downloadTimeoutSec) == Max(downloadTimeoutSec * 1000, 10000)

\* a delay without the fallback of line 69
clickDelay_Raw(pdfClickDelaySec) == pdfClickDelaySec * 1000

\* downloadPdfs, line 69
clickDelay(pdfClickDelaySec) ==
  IF pdfClickDelaySec > 0 THEN pdfClickDelaySec * 1000 ELSE 1000

InitTiming ==
  /\ ProgIdle
  /\ FmIdle
  /\ SheetIdle
  /\ RelayIdle
  /\ AnchorIdle
  /\ labPc = "timing"
  /\ timing \in [downloadTimeoutSec : -1..MaxTimeoutSec,
                 pdfClickDelaySec : -1..MaxDelaySec]
  /\ downloadTimeout = 0
  /\ delayTime = 0

\* new DownloaderService(page) (lines 20-24)
NewDownloaderService ==
  /\ labPc = "timing"
  /\ labPc' = "constructed"
  /\ downloadTimeout' = batchTimeout(timing.downloadTimeoutSec)
  /\ UNCHANGED <<progVars, fmVars, sheetVars, relayVars, anchorVars, timing,
                 delayTime>>

\* downloadPdfs lines 68-70: the sleep after a click
SleepAfterClick ==
  /\ labPc = "constructed"
  /\ labPc' = "slept"
  /\ delayTime' = clickDelay(timing.pdfClickDelaySec)
  /\ UNCHANGED <<progVars, fmVars, sheetVars, relayVars, anchorVars, timing,
                 downloadTimeout>>

NextTiming == NewDownloaderService \/ SleepAfterClick

SpecTiming == InitTiming /\ [][NextTiming]_vars

\* ===================================== getAvailablePdfs: one anchor
\* the characters of a text: two letters that differ in case only, the
\* space and the line feed
TextChars == {"A", "a", " ", "\n"}

\* the characters \s matches
IsSpace(c) == c \in {" ", "\n", "\r", "\t"}

\* .replace(/[\r\n|\n|\r]/g, ''): every character of the class, which
\* holds the carriage return, the line feed and the vertical bar, is removed
removeLineBreaks(str) ==
  Filter(str, [k \in 1..Len(str) |-> str[k] \notin {"\r", "\n", "|"}])

\* .replace(/^\s*?(\S.*\S)\s.*?$/, '$1'): the group starts at the first
\* character that is not white space, has two characters or more and ends
\* at the last character that is not white space and is followed by white
\* space; when there is no such group the regular expression does not match
\* and the string is returned as it is
stripAround(str) ==
  LET solid == {k \in 1..Len(str) : ~IsSpace(str[k])}
      first == IF solid = {} THEN 0
               ELSE CHOOSE k \in solid : \A m \in solid : k <= m
      ends == {k \in solid : k > first /\ k < Len(str) /\ IsSpace(str[k + 1])}
  IN  IF first = 0 \/ ends = {} THEN str
      ELSE SubSeq(str, first, CHOOSE k \in ends : \A m \in ends : m <= k)

\* the places of a single space between two characters that are not white
\* space: the matches of /(?<=\S) (?=\S)/
InnerSpaces(str) ==
  {k \in 2..(Len(str) - 1) :
     str[k] = " " /\ ~IsSpace(str[k - 1]) /\ ~IsSpace(str[k + 1])}

\* .replace(/(?<=\S) (?=\S)/, '+'): without the g flag the first match only
plusForSpace(str) ==
  IF InnerSpaces(str) = {} THEN str
  ELSE [str EXCEPT ![CHOOSE k \in InnerSpaces(str) :
                        \A m \in InnerSpaces(str) : k <= m] = "+"]

\* lines 269-272, and formatFileName of utils/helpers.ts
formatFileName(fileName) ==
  plusForSpace(stripAround(removeLineBreaks(fileName)))

\* String.prototype.includes
Includes(str, keyword) ==
  \E k \in 0..(Len(str) - Len(keyword)) :
     SubSeq(str, k + 1, k + Len(keyword)) = keyword

\* line 274: pdfKeywords.some(keyword => fileName.includes(keyword))
enableDownloadOf(fileName, keywords) ==
  \E keyword \in keywords : Includes(fileName, keyword)

Keywords == {<<"A">>, <<"a", "A">>}

InitAnchor ==
  /\ ProgIdle
  /\ FmIdle
  /\ SheetIdle
  /\ RelayIdle
  /\ TimingIdle
  /\ labPc = "anchor"
  /\ textContent \in SeqsUpTo(TextChars, MaxText)
  /\ pdfKeywords \in SUBSET Keywords
  /\ pdfFile = NoPdfFile

\* getAvailablePdfs lines 266-280, for one anchor: the filter of line 266
\* drops an anchor whose text is white space only
EvaluateAnchor ==
  /\ labPc = "anchor"
  /\ labPc' = "evaluated"
  /\ pdfFile' =
       IF \A k \in 1..Len(textContent) : IsSpace(textContent[k])
       THEN NoPdfFile
       ELSE [listed |-> TRUE,
             fileName |-> formatFileName(textContent),
             enableDownload |->
               enableDownloadOf(formatFileName(textContent), pdfKeywords)]
  /\ UNCHANGED <<progVars, fmVars, sheetVars, relayVars, timingVars,
                 textContent, pdfKeywords>>

NextAnchor == EvaluateAnchor

SpecAnchor == InitAnchor /\ [][NextAnchor]_vars

\* ================================================================ claims
\* the rows this process added to the ledger
AddedRows == (obs.loaded + 1)..Len(history)

\* C1 (idempotent resume): when the previous process ran to completion and
\* saved the ledger, a process run against the same search-result list and
\* the same configuration adds no row to the ledger and opens no detail page.
C1_IdempotentResume ==
  (pc # "idle" /\ prev.completed) =>
     /\ Len(history) = obs.loaded
     /\ obs.opened = <<>>

\* a second process has gone through its filter after a completed first one
\* that recorded contracts, and is about to end
C1_Witness ==
  /\ prev.completed
  /\ pc = "close"
  /\ obs.loaded > 0
  /\ site # <<>>
  /\ obs.summary = 1

\* C2 (crash resume): a contract that an earlier process recorded with
\* addToHistory is neither opened nor recorded again by the next process,
\* however the earlier process ended.
C2_CrashResume ==
  \A c \in prev.recorded :
     /\ c \notin Range(obs.opened)
     /\ \A k \in AddedRows : history[k].contractId # c

UniqueIds(rows) ==
  \A a, b \in 1..Len(rows) : a # b => rows[a].contractId # rows[b].contractId

\* C3 (ledger uniqueness): no two rows of the ledger, in memory or in the
\* file, have the same contractId.
C3_LedgerUnique == UniqueIds(history) /\ UniqueIds(file.rows)

EntityErrors ==
  {"navigateToContractDetail", "getAvailablePdfs", "waitForSelector",
   "navigateBack"}

\* C4 (per-entity failure isolation): when a step of one entity has thrown,
\* the process still ends with every later entity of the filtered list
\* visited, saveHistory called and the run-summary notification sent.
C4_EntityFailureIsolated ==
  (pc = "close" /\ err \in EntityErrors) =>
     /\ Len(obs.opened) = Len(filtered)
     /\ obs.saved # "no"
     /\ obs.summary = 1

\* C5 (connect failure aborts): when navigateToTopPage reported success =
\* false, navigateToConsultantSearch is not called and no row is added.
C5_ConnectFailureAborts ==
  (pc \notin {"idle", "top"} /\ ~topResult.success) =>
     /\ ~obs.consultCalled
     /\ Len(history) = obs.loaded

\* the names of the attachment candidates of filteredContracts[k]
CandidateNames(k) ==
  {getAvailablePdfs(filtered[k])[i].fileName : i \in 1..Len(filtered[k].links)}

\* C6 (partition): for every row this process added, downloaded and
\* notDownloaded are disjoint and together hold every attachment candidate.
C6_Partition ==
  \A k \in AddedRows :
     LET d == Range(RowDownloaded(history[k], arr))
         n == Range(history[k].notDownloaded)
     IN  /\ d \cap n = {}
         /\ d \cup n = CandidateNames(history[k].ref)

\* C7 (batch timeout, partial success): when the batch timer fired, the
\* downloaded list that downloadPdfs returned holds exactly the items whose
\* task had finished saving, one entry each.
C7_TimeoutPartialSuccess ==
  \A k \in obs.timedOut :
     LET done == {t \in obs.doneAtReturn : t[1] = k}
     IN  /\ Range(obs.atReturn[k]) = {suggestedFilename(t) : t \in done}
         /\ Len(obs.atReturn[k]) = Cardinality(done)

\* C8 (late completions): the downloaded field of a row this process added
\* stays what downloadPdfs returned, in memory and in the file.
C8_NoLateCompletion ==
  /\ \A k \in AddedRows :
        RowDownloaded(history[k], arr) = obs.atReturn[history[k].ref]
  /\ obs.saved = "written" =>
        \A k \in AddedRows :
           file.rows[k].downloaded = obs.atReturn[history[k].ref]

NoDuplicates(q) == \A a, b \in 1..Len(q) : a # b => q[a] # q[b]

\* C9 (completion matching): the download event a task receives is the one
\* its own click started, and no file name is in a downloaded list twice.
C9_CompletionMatching ==
  /\ \A t \in TaskIds : tasks[t].got \in {NoDownload, t}
  /\ \A k \in 1..MaxList : NoDuplicates(arr[k])

\* C10 (per-item failure isolation): a failure at a step of one item does
\* not end the batch with an error, and the name of an item whose task
\* failed is not in downloaded.
C10_ItemFailureIsolated ==
  /\ err # "waitForSelector"
  /\ \A t \in TaskIds :
        tasks[t].st = "failed" => suggestedFilename(t) \notin Range(arr[t[1]])

\* C11 (trigger ordering): in every batch the clicks are issued in the order
\* of the candidate list, at most one per eligible item; the n-th click is
\* issued when n - 1 inter-click sleeps have ended; and when the shared wait
\* is awaited every eligible item has been clicked exactly once, and no click
\* is issued afterwards.
C11_TriggerOrdering ==
  \A k \in 1..Len(filtered) :
     LET tg == downloadTargets(getAvailablePdfs(filtered[k]))
         cl == obs.clicks[k]
     IN  /\ Len(cl) <= Len(tg)
         /\ \A n \in 1..Len(cl) : cl[n].item = tg[n] /\ cl[n].slept = n - 1
         /\ k \in obs.waited => Len(cl) = Len(tg)

\* a batch with an ineligible item between two eligible ones is in its wait
C11_Witness ==
  /\ pc = "race"
  /\ 1 \in obs.waited
  /\ Len(obs.clicks[1]) = 2
  /\ Len(pdfs) = 3 /\ ~pdfs[2].enableDownload

StepOrder(upload) ==
  IF upload
  THEN <<"OpenDetail", "ExtractAttachments", "Download", "RecordLedger",
         "MirrorUpload", "Back">>
  ELSE <<"OpenDetail", "ExtractAttachments", "Download", "RecordLedger",
         "Back">>

\* C13 (per-entity step order): the steps of every entity occur in the
\* order OpenDetail, ExtractAttachments, Download, RecordLedger, MirrorUpload
\* (when enabled), Back; and all of them, Back included, have occurred when
\* the next entity is opened and when the loop has ended.
C13_StepOrder ==
  \A k \in 1..Len(filtered) :
     LET st == obs.steps[k]
         full == StepOrder(cfg.uploadEnabled)
     IN  /\ Len(st) <= Len(full)
         /\ \A n \in 1..Len(st) : st[n] = full[n]
         /\ (k < Len(filtered) /\ obs.steps[k + 1] # <<>>) => st = full
         /\ (obs.saves > 0 /\ err = "none") => st = full

\* C14 (exactly one summary notification): a process whose run ends with
\* every entity processed, with downloads failed or timed out, with a failed
\* entity, or with nothing new has called sendNotification with the run
\* summary exactly once; and no process calls it more than once.
C14_OneSummary ==
  /\ obs.summary <= 1
  /\ (pc = "close" /\ err \in {"none"} \cup EntityErrors) => obs.summary = 1

C16_ExitCode ==
  prev.exit.how = "exit" =>
     /\ ~prev.exit.fatal => prev.exit.code = 0
     /\ prev.exit.fatal => (prev.exit.code # 0 /\ prev.exit.errorNote > 0)

\* C17 (fatal-error notification): a process in which an error reached the
\* top level has, when it closes the browser, sent exactly one error
\* notification and exactly one run-summary notification; and it has sent
\* exactly one error notification when it exits.
C17_FatalNotification ==
  /\ (pc = "close" /\ err # "none") =>
        (obs.errorNote = 1 /\ obs.summary = 1)
  /\ (prev.exit.how = "exit" /\ prev.exit.fatal) => prev.exit.errorNote = 1

\* C18 (maintenance banner): when navigateToTopPage reported success = true
\* and isServiceStopped = true, navigateToConsultantSearch is not called, no
\* list is fetched, no detail page is opened, and no error is raised or
\* notified.
C18_MaintenanceBanner ==
  (pc \notin {"idle", "top"} /\ topResult.success
     /\ topResult.isServiceStopped) =>
        /\ ~obs.consultCalled /\ ~obs.listed /\ obs.opened = <<>>
        /\ err = "none" /\ obs.errorNote = 0

\* C19 (pendingSync selection): getContractsToUpload returns, in the order
\* of the ledger, exactly the rows without an uploaded field and the rows
\* whose uploaded list holds a failed result; a row whose uploaded list
\* exists and holds no failed result, the empty list included, is left out.
C19_PendingSync ==
  (obs.selected /\ obs.saves = 0) =>
     LET h == loadHistory(file)
         list == contractsToUpload
     IN  /\ \A a, b \in 1..Len(list) : a < b => list[a] < list[b]
         /\ \A k \in 1..Len(h) :
               k \in Range(list) <=>
                  \/ ~h[k].hasUploaded
                  \/ "failed" \in {h[k].uploaded[n].status :
                                     n \in 1..Len(h[k].uploaded)}

\* the pass selected the second of two rows; the first has upload results
\* without a failure
C19_Witness ==
  /\ pc = "uploadOnly" /\ obs.selected /\ obs.saves = 0
  /\ Len(history) = 2
  /\ contractsToUpload = <<2>>
  /\ history[1].hasUploaded

\* C20 (mirror pass retries per file): the upload-only pass uploads no file
\* whose recorded upload result for its contract is success, so that no
\* file is uploaded successfully a second time.
C20_RetryPerFile == obs.retried = {} /\ obs.twice = {}

\* a row without its upload results
WithoutUploaded(r) == [r EXCEPT !.hasUploaded = FALSE, !.uploaded = <<>>]

\* C21 (upload-only mode): a process started with --upload-only launches no
\* browser and navigates nowhere; it gives files to uploadFile only for rows
\* that getContractsToUpload returned; the ledger keeps its rows, in number
\* and order, and only the uploaded field of rows that getContractsToUpload
\* returned changes.
C21_UploadOnlyFrame ==
  obs.uploadOnly =>
     /\ ~obs.browser /\ ~obs.consultCalled /\ ~obs.listed
     /\ obs.opened = <<>>
     /\ obs.touched \subseteq Range(contractsToUpload)
     /\ Len(history) = Len(obs.atLoad)
     /\ \A k \in 1..Len(history) :
           /\ WithoutUploaded(history[k]) = WithoutUploaded(obs.atLoad[k])
           /\ k \notin Range(contractsToUpload) => history[k] = obs.atLoad[k]

\* the file of a name of a row is on disk: it is in the folder that
\* createContractDirectory made for the row's contract
OnDisk(row, name) ==
  \E k \in 1..Len(dataDir) :
     /\ dataDir[k].name =
          FolderName(row.contractId, row.contractName, row.sectionName)
     /\ name \in dataDir[k].files

\* the pairs of a row and a place in its downloaded list whose file is
\* not on disk
Drifted ==
  {p \in (1..Len(downloadHistory)) \X (1..MaxNames) :
     /\ p[2] <= Len(downloadHistory[p[1]].downloaded)
     /\ ~OnDisk(downloadHistory[p[1]], downloadHistory[p[1]].downloaded[p[2]])}

\* C22 (reconciliation detects drift): checkDownloadedFiles returns one
\* FailedDownload entry for every pair of a row and a name of its downloaded
\* list whose file is not on disk, and nothing else, whether the folder of
\* the row exists or not.
C22_ReconcileDrift ==
  labPc = "checked" =>
     /\ Len(failedDownloads) = Cardinality(Drifted)
     /\ Range(failedDownloads) =
          {[contractId |-> downloadHistory[p[1]].contractId,
            contractName |-> downloadHistory[p[1]].contractName,
            sectionName |-> downloadHistory[p[1]].sectionName,
            fileName |-> downloadHistory[p[1]].downloaded[p[2]]] :
             p \in Drifted}

\* the reference time of a directory: the downloadedAt of the ledger row
\* with the contract id of the directory when the row has one, the
\* modification time of the directory otherwise
ReferenceTime(dir) ==
  LET withAt == {k \in 1..Len(downloadHistory) :
                   /\ FolderName(downloadHistory[k].contractId, <<"n">>,
                                 <<"s">>) = dir.name
                   /\ downloadHistory[k].downloadedAt # 0}
  IN  IF withAt = {} THEN dir.mtime
      ELSE downloadHistory[CHOOSE k \in withAt : TRUE].downloadedAt

C24_UpsertByKey ==
  labPc = "sheet" =>
     /\ \A a, b \in 1..Len(sheet) : a # b => sheet[a].number # sheet[b].number
     /\ (\E k \in 1..Len(sheetCall.before) :
            sheetCall.before[k].number = sheetCall.contractId)
         => Len(sheet) = Len(sheetCall.before)

\* C25 (relay validation): the relay sends on a channel only for a request
\* whose apiKey equals the configured key and whose subject and text are
\* not empty; a wrong key gives the 401 response, whatever the parameters
\* are, a missing subject or text gives 400, an exception while the request
\* is handled gives 500, and nothing is sent with a 401 or 400 response.
C25_RelayValidation ==
  relay.request.body # "none" =>
     /\ relay.sent # {} =>
           /\ relay.request.apiKey = CONFIG.API_KEY
           /\ relay.request.subject # ""
           /\ relay.request.text # ""
     /\ (relay.request.body = "object"
          /\ relay.request.apiKey # CONFIG.API_KEY) => relay.statusCode = 401
     /\ (relay.request.body = "object"
          /\ relay.request.apiKey = CONFIG.API_KEY
          /\ (relay.request.subject = "" \/ relay.request.text = ""))
         => relay.statusCode = 400
     /\ relay.thrown # {} => relay.statusCode = 500
     /\ relay.statusCode \in {400, 401} => relay.sent = {}

\* C26 (timing floors): the batch timeout is the larger of
\* downloadTimeoutSec * 1000 and 10000 milliseconds; the delay between two
\* clicks is pdfClickDelaySec * 1000 milliseconds when pdfClickDelaySec is
\* positive and 1000 otherwise.
C26_TimingFloors ==
  /\ labPc \in {"constructed", "slept"} =>
        /\ downloadTimeout >= 10000
        /\ downloadTimeout >= timing.downloadTimeoutSec * 1000
        /\ downloadTimeout \in {10000, timing.downloadTimeoutSec * 1000}
  /\ labPc = "slept" =>
        /\ timing.pdfClickDelaySec > 0
              => delayTime = timing.pdfClickDelaySec * 1000
        /\ timing.pdfClickDelaySec <= 0 => delayTime = 1000

\* both floors were applied: a timeout of 9 seconds became 10000 ms and a
\* delay of 0 seconds became 1000 ms
C26_Witness ==
  /\ labPc = "slept"
  /\ timing.downloadTimeoutSec = 9
  /\ downloadTimeout = 10000
  /\ timing.pdfClickDelaySec = 0
  /\ delayTime = 1000

\* C27 (file names and eligibility): the name of a listed anchor has no
\* line break, no white space before or after it, and a '+' in the place
\* of its first inner single space; the text "SR A", line feed, space
\* becomes "SR+A"; the anchor is eligible exactly when its name holds a
\* configured keyword, in the case of the keyword.
C27_FileNames ==
  /\ formatFileName(<<"S", "R", " ", "A", "\n", " ">>)
        = <<"S", "R", "+", "A">>
  /\ pdfFile.listed =>
        LET name == pdfFile.fileName
        IN  /\ \A k \in 1..Len(name) : name[k] \notin {"\n", "\r"}
            /\ name # <<>>
            /\ ~IsSpace(name[1])
            /\ ~IsSpace(name[Len(name)])
            /\ InnerSpaces(name) # {} =>
                  \E k \in 1..Len(name) :
                     name[k] = "+" /\ \A m \in InnerSpaces(name) : k < m
            /\ pdfFile.enableDownload <=>
                  \E keyword \in pdfKeywords :
                     \E k \in 1..Len(name) :
                        /\ k + Len(keyword) - 1 <= Len(name)
                        /\ \A m \in 1..Len(keyword) :
                              name[k + m - 1] = keyword[m]

\* the contractIds of the ledger the running process loaded at startup
StartIds == {history[k].contractId : k \in 1..obs.loaded}

\* the listed entities a run has to visit, in list order: those that are not
\* in the ledger loaded at startup and, with downloadOnlyNew, are new
ToVisit ==
  LET keep == [k \in 1..Len(site) |->
                 /\ site[k].contractId \notin StartIds
                 /\ cfg.downloadOnlyNew => site[k].isNew]
      kept == Filter(site, keep)
  IN  [k \in 1..Len(kept) |-> kept[k].contractId]

\* C28 (filter before visit): the entities whose detail page a run goes to
\* are those listed entities that are not in the ledger loaded at startup
\* and, with downloadOnlyNew, are new: they are visited in list order, at the
\* end of the run all of them and nothing else has been visited, and the page
\* of an entity of the startup ledger is never opened.
C28_FilterBeforeVisit ==
  /\ ~obs.listed => obs.visited = <<>>
  /\ obs.listed =>
        /\ Len(obs.visited) <= Len(ToVisit)
        /\ obs.visited = SubSeq(ToVisit, 1, Len(obs.visited))
  /\ (pc = "close" /\ obs.listed) => obs.visited = ToVisit
  /\ Range(obs.opened) \subseteq Range(obs.visited)
  /\ \A k \in 1..Len(obs.visited) : obs.visited[k] \notin StartIds

\* C29 (no stale handles): getAvailablePdfs, downloadPdfs and navigateBack
\* use, for each entity, a frame handle that was acquired after the detail
\* page of that entity was opened, never one that existed before.
C29_NoStaleHandles ==
  \A u \in obs.uses : u.handle > u.openedAt

\* C30 (ledger monotonicity): while a process runs and when it has saved,
\* the ledger file holds every contractId it held when the process started,
\* whether the file was missing, readable, unreadable or not parseable then.
C30_LedgerMonotone ==
  pc # "idle" => obs.persisted \subseteq PersistedIds(file)

\* C31 (atomic save): whatever happens to a process while saveHistory
\* writes, the ledger file that exists is a complete document: the snapshot
\* of before or the new one, never a document that was cut short.
C31_AtomicSave ==
  file.exists => file.valid

\* C32 (a failed save is not fatal): when the write of the ledger file has
\* failed, no error is raised, the rows in memory are those saveHistory was
\* called with, the run goes on to its summary notification, and the summary
\* holds the results of every entity the run processed.
C32_SaveFailureNotFatal ==
  obs.saved = "failed" =>
     /\ pc # "catch"
     /\ obs.errorNote = 0
     /\ history = obs.atSave
     /\ pc = "notify" \/ obs.summary = 1
     /\ obs.reported = 1..Len(filtered)

\* the contractIds for which this process stored an upload result with
\* status 'failed'
FailedUploads ==
  {filtered[obs.uploads[n].entity].contractId :
     n \in {m \in 1..Len(obs.uploads) : HasFailed(obs.uploads[m].results)}}
  \cup {history[k].contractId :
          k \in {m \in obs.touched : HasFailed(history[m].uploaded)}}

\* the contractIds of the rows getContractsToUpload returns in a process
\* that loads the ledger file f
ToUploadLater(f) ==
  {loadHistory(f)[getContractsToUpload(loadHistory(f))[q]].contractId :
     q \in 1..Len(getContractsToUpload(loadHistory(f)))}

\* C33 (mirror failures are recorded and never abort): no error reaches
\* main's catch from the mirror step of an entity (when one is caught during
\* the pass of an entity that began its mirror step, that entity's
\* navigateBack had been called); after an upload step with failures the row this
\* pass added holds a 'failed' entry for every file whose upload failed; and
\* when the process has nothing left to do but end, a process started on
\* the ledger file it leaves gets from getContractsToUpload a row of every
\* contract that had a failed upload.
C33_MirrorFailuresRecorded ==
  /\ pc = "catch" =>
        /\ err \notin {"createContractFolder", "uploadFile"}
        /\ (idx \in 1..Len(filtered)
              /\ "MirrorUpload" \in Range(obs.steps[idx]))
             => "Back" \in Range(obs.steps[idx])
  /\ \A n \in 1..Len(obs.uploads) :
        LET u == obs.uploads[n]
            k == obs.loaded + u.entity
        IN  \A m \in 1..Len(u.results) :
              u.results[m].status = "failed" =>
                 /\ k <= Len(history)
                 /\ history[k].hasUploaded
                 /\ \E q \in 1..Len(history[k].uploaded) :
                       history[k].uploaded[q] = u.results[m]
  /\ pc \in {"close", "exit"} => FailedUploads \subseteq ToUploadLater(file)

\* the names of the candidates of ps that are not eligible, in list order
IneligibleNames(ps) ==
  LET pos == Filter([k \in 1..Len(ps) |-> k],
                    [k \in 1..Len(ps) |-> ~ps[k].enableDownload])
  IN  [n \in 1..Len(pos) |-> ps[pos[n]].fileName]

IsPrefix(s, t) ==
  Len(s) <= Len(t) /\ \A n \in 1..Len(s) : s[n] = t[n]

\* C34 (ineligible candidates): the notDownloaded list downloadPdfs returns
\* holds the names of the candidates that are not eligible, each once and
\* in list order, and nothing else; while the batch is running the list is a
\* prefix of that sequence; and every click is on an eligible candidate.
C34_IneligibleListed ==
  /\ \A k \in obs.returned :
        history[obs.loaded + k].notDownloaded =
           IneligibleNames(getAvailablePdfs(filtered[k]))
  /\ pc \in {"selector", "sleep", "race"} =>
        IsPrefix(notDl, IneligibleNames(pdfs))
  /\ \A e \in 1..Len(filtered) :
        \A n \in 1..Len(obs.clicks[e]) :
           getAvailablePdfs(filtered[e])[obs.clicks[e][n].item].enableDownload

\* downloadPdfs has returned for a detail page with an eligible candidate
\* between two candidates that are not eligible, after its click
C34_Witness ==
  /\ 1 \in obs.returned
  /\ Len(history[obs.loaded + 1].notDownloaded) = 2
  /\ Len(obs.clicks[1]) = 1
  /\ filtered[1].links = <<FALSE, TRUE, FALSE>>

\* every name of the list `downloaded` has exactly one entry in the list
\* `uploaded`
Covered(downloaded, uploaded) ==
  \A n \in 1..Len(downloaded) :
     Cardinality({q \in 1..Len(uploaded) :
                    uploaded[q].fileName = downloaded[n]}) = 1

\* C35 (upload coverage): in a main run, once the upload step of an entity
\* has finished (its folder was created and addUploadResults was called),
\* every file name in the downloaded list of the row of that entity has
\* exactly one entry in the row's uploaded list, in memory and in the ledger
\* file once saveHistory has written it.
C35_UploadCoverage ==
  \A n \in 1..Len(obs.uploads) :
     LET k == obs.loaded + obs.uploads[n].entity
     IN  /\ Covered(RowDownloaded(history[k], arr), history[k].uploaded)
         /\ obs.saved = "written" =>
               Covered(file.rows[k].downloaded, file.rows[k].uploaded)

\* C36 (the mirror pass converges): when an upload-only pass in which no
\* remote operation failed has ended, getContractsToUpload returns no row of
\* the ledger.
C36_MirrorConverges ==
  (obs.uploadOnly /\ obs.selected /\ pc = "exit" /\ obs.remoteOk) =>
     getContractsToUpload(history) = <<>>

\* downloadPdfs is suspended at one of its awaits: waitForSelector (line
\* 61), sleep (line 70), the race against the batch timer (line 82)
InDownloadPdfs == pc \in {"selector", "sleep", "race"}

\* C37 (the download batch terminates): a call of downloadPdfs that is
\* suspended at one of its awaits is eventually over (it returns its result,
\* or rejects when waitForSelector throws, or the process is killed),
\* whatever becomes of the downloads its clicks started.
C37_BatchTerminates == InDownloadPdfs ~> ~InDownloadPdfs

\* downloadPdfs has returned at the batch timeout while a task was still
\* waiting for its download event and another one for its save
C37_Witness ==
  /\ 1 \in obs.returned
  /\ 1 \in obs.timedOut
  /\ \E t \in TaskIds : tasks[t].st = "wait"
  /\ \E t \in TaskIds : tasks[t].st = "save"

\* the name createContractDirectory gave to the folder of a row
OwnFolder(row) ==
  FolderName(row.contractId, row.contractName, row.sectionName)

\* no folder, when the row's own folder is not in the data directory, or
\* else the row's own folder
OwnOrNone(row, used) ==
  IF \E k \in 1..Len(dataDir) : dataDir[k].name = OwnFolder(row)
  THEN used = OwnFolder(row)
  ELSE used = <<>>

\* C38 (reconciliation uses the entity's own folder): for every row,
\* checkDownloadedFiles looks for the row's files in the folder that
\* createContractDirectory names for the row, or in no folder when that one
\* is not in the data directory; and every path getFilesToUpload returns for
\* a row with files lies in that folder.
C38_OwnFolder ==
  /\ labPc = "checked" =>
        \A k \in 1..Len(downloadHistory) :
           OwnOrNone(downloadHistory[k], folderUse.checked[k])
  /\ labPc = "listed" =>
        \A k \in 1..Len(downloadHistory) :
           \A n \in 1..Len(folderUse.paths[k]) :
              OwnOrNone(downloadHistory[k], folderUse.paths[k][n].dir)

\* C39 (the browser is always released): when main has returned (the
\* process ended by itself with exit code 0), the browser it launched has
\* been closed, whether runDownloader returned after the loop, after the
\* nothing-new notification or after a failed connection, or threw.
C39_BrowserReleased ==
  (prev.exit.how = "exit" /\ prev.exit.code = 0) => ~prev.exit.browserOpen

\* main has returned after an error of runDownloader reached its catch
C39_Witness ==
  /\ pc = "idle"
  /\ prev.exit.how = "exit"
  /\ prev.exit.code = 0
  /\ prev.exit.fatal
  /\ prev.exit.errorNote = 1
  /\ ~prev.exit.browserOpen

====
